---- MODULE Spec2Model ----
(***************************************************************************)
(* Infrastructure Designer backend: the in-memory device/connection        *)
(* registry (HTTP handlers) and the topology compiler (segment analysis    *)
(* and per-interface address assignment) that the export endpoints run.    *)
(*                                                                         *)
(* Strings of the program are represented as follows.                      *)
(*  - a device id is a TLA+ string; template literals such as              *)
(*    `${from}-${to}` are string concatenation (\o);                       *)
(*  - an address string is the sequence of its '.'-separated parts, each   *)
(*    part the integer whose decimal text it is ("10.5.5.50" is            *)
(*    <<10,5,5,50>>, "10.9" is <<10,9>>); split('.') is then the sequence  *)
(*    itself and a template `${base}.1` appends a part;                    *)
(*  - a CIDR string "a.b.c.0/24" is the pair of its '/'-separated parts,   *)
(*    <<(a,b,c,0), 24>>;                                                   *)
(*  - null / undefined / absent is the empty sequence Null; an optional    *)
(*    object (interfaceIPs) is Null or the one-element sequence <<map>>.   *)
(***************************************************************************)
EXTENDS Integers, Sequences, FiniteSets, TLC

VARIABLES devices, connections, manifest, response

vars == <<devices, connections, manifest, response>>

(* Bounds of the model: the arrays are unbounded in the program. *)
MaxDevices == 3
MaxConnections == 2

Null == <<>>

(* `${undefined}` inside a template literal. *)
Undefined == "undefined"

(***************************************************************************)
(* Request inputs.  Two sets of requests are explored, each with every     *)
(* request of the API:                                                     *)
(*  - registry requests: three device ids (arbitrary strings, here with    *)
(*    the separator of the analyzer's connection key in them), every       *)
(*    device type, one static address, no router addresses;                *)
(*  - addressing requests: two device ids, every device type, static,      *)
(*    stored-interface and connection-level router addresses, valid and    *)
(*    malformed.                                                           *)
(***************************************************************************)
DeviceTypes == {"vm", "router", "switch"}

StaticIP == <<10, 5, 5, 50>>
StoredIP == <<10, 7, 7, 1>>
ConnIP == <<10, 9, 9, 1>>
(* "10.9": no dotted quad *)
NoQuad == <<10, 9>>
(* "10.5.5.256": a quad with an octet above 255 *)
BadOctet == <<10, 5, 5, 256>>

DeviceIds == {"r1", "s-r1", "r1-s"}

(* cpu, memory and storage absent from the request body. *)
NoResources == [cpu |-> Null, memory |-> Null, storage |-> Null]

RegistryDeviceRequests ==
    [id : DeviceIds, type : DeviceTypes, ip : {Null}, interfaceIPs : {Null},
     resources : {NoResources}]
    \cup [id : {"s-r1"}, type : DeviceTypes, ip : {StaticIP}, interfaceIPs : {Null},
          resources : {NoResources}]

RegistryConnectionRequests ==
    [from : DeviceIds, to : DeviceIds, fromRouterIP : {Null}, toRouterIP : {Null}]

AddrIds == {"d1", "d2"}

AddrDeviceRequests ==
    [id : {"d1"}, type : DeviceTypes, ip : {Null, StaticIP},
     interfaceIPs : {Null, <<("to_d2" :> StoredIP)>>, <<("to_d2" :> NoQuad)>>},
     resources : {NoResources}]
    \cup [id : {"d2"}, type : DeviceTypes, ip : {Null, StaticIP, NoQuad, BadOctet},
          interfaceIPs : {Null}, resources : {NoResources}]

AddrConnectionRequests ==
    {[from |-> f, to |-> t, fromRouterIP |-> p[1], toRouterIP |-> p[2]] :
        f \in AddrIds, t \in AddrIds,
        p \in {<<Null, Null>>, <<ConnIP, Null>>, <<Null, ConnIP>>, <<NoQuad, Null>>}}

(* Rendering requests: two device ids (one with upper-case letters),      *)
(* every device type, and cpu / memory / storage texts that are absent,    *)
(* well formed, and malformed.                                             *)
RenderIds == {"R1", "v1"}

RenderResources ==
    {NoResources,
     [cpu |-> <<"4">>, memory |-> <<"4", "G", "B">>, storage |-> <<"2", "0", "G", "B">>],
     [cpu |-> <<"0">>, memory |-> <<"5", "1", "2", "M", "i">>,
      storage |-> <<"5", "1", "2", "m", "b">>],
     [cpu |-> Null, memory |-> <<"l", "o", "t", "s">>, storage |-> <<"b", "i", "g">>],
     [cpu |-> <<"t", "w", "o">>, memory |-> Null, storage |-> <<" ">>]}

RenderDeviceRequests ==
    [id : {"R1"}, type : {"router", "switch"}, ip : {Null}, interfaceIPs : {Null},
     resources : RenderResources]
    \cup [id : {"v1"}, type : {"vm", "switch"}, ip : {Null}, interfaceIPs : {Null},
          resources : {r \in RenderResources : r.cpu = Null \/ r.cpu = <<"4">>}]

RenderConnectionRequests ==
    [from : RenderIds, to : RenderIds, fromRouterIP : {Null}, toRouterIP : {Null}]

(***************************************************************************)
(* Helpers                                                                 *)
(***************************************************************************)
Min(S) == CHOOSE x \in S : \A y \in S : x <= y

(* Array.prototype.find by predicate on the id; 0 stands for undefined. *)
findDevice(devs, id) ==
    LET hits == {i \in 1..Len(devs) : devs[i].id = id}
    IN  IF hits = {} THEN 0 ELSE Min(hits)

(* /^(\d{1,3})\.(\d{1,3})\.(\d{1,3})\.(\d{1,3})$/ *)
ipPattern(ip) == Len(ip) = 4 /\ \A i \in 1..4 : ip[i] \in 0..999

(***************************************************************************)
(* GET /clear-database                                                     *)
(***************************************************************************)
clearDatabase ==
    [devices |-> <<>>, connections |-> <<>>, status |-> 200, error |-> ""]

(***************************************************************************)
(* POST /devices                                                           *)
(***************************************************************************)
processInterfaceIPs(type, interfaceIPs) ==
    IF type = "router" /\ interfaceIPs # Null
    THEN LET given == interfaceIPs[1]
             kept == {k \in DOMAIN given : given[k] # Null}
         IN  <<[k \in kept |-> given[k]]>>
    ELSE Null

(* A lookup that never finds the id. *)
existingDeviceNone(devs, id) == 0

(* const existingDevice = devices.find(d => d.id === id) *)
existingDevice(devs, id) == findDevice(devs, id)

postDevices(devs, id, type, cpu, memory, storage, ip, interfaceIPs) ==
    LET rejected(error) == [devices |-> devs, status |-> 400, error |-> error]
    IN  IF existingDevice(devs, id) # 0
        THEN rejected("Device with ID already exists")
        ELSE IF ip # Null /\ ~ipPattern(ip)
        THEN rejected("Invalid IP address format")
        ELSE IF ip # Null /\ \E i \in 1..4 : ip[i] > 255
        THEN rejected("Invalid IP address - octets must be 0-255")
        ELSE IF ip # Null /\ \E i \in 1..Len(devs) : devs[i].ip = ip
        THEN rejected("IP address is already assigned")
        ELSE IF /\ type = "router"
                /\ interfaceIPs # Null
                /\ \E k \in DOMAIN interfaceIPs[1] :
                      interfaceIPs[1][k] # Null /\ ~ipPattern(interfaceIPs[1][k])
        THEN rejected("Invalid interface IP format")
        ELSE [devices |-> Append(devs, [id |-> id, type |-> type,
                                        cpu |-> cpu, memory |-> memory,
                                        storage |-> storage, ip |-> ip,
                                        interfaceIPs |->
                                            processInterfaceIPs(type, interfaceIPs)]),
              status |-> 200, error |-> ""]

(***************************************************************************)
(* POST /devices/delete                                                    *)
(***************************************************************************)
(* A delete that removes only the connections leaving the device. *)
devicesDeleteFromOnly(devs, conns, deviceId) ==
    LET keepDevice(device) == device.id # deviceId
        keepConn(conn) == conn.from # deviceId
    IN  [devices |-> SelectSeq(devs, keepDevice),
         connections |-> SelectSeq(conns, keepConn),
         status |-> 200, error |-> ""]

(* A delete that keeps the connections. *)
devicesDeleteNoCascade(devs, conns, deviceId) ==
    LET keepDevice(device) == device.id # deviceId
    IN  [devices |-> SelectSeq(devs, keepDevice),
         connections |-> conns,
         status |-> 200, error |-> ""]

devicesDelete(devs, conns, deviceId) ==
    LET keepDevice(device) == device.id # deviceId
        keepConn(conn) == conn.from # deviceId /\ conn.to # deviceId
    IN  [devices |-> SelectSeq(devs, keepDevice),
         connections |-> SelectSeq(conns, keepConn),
         status |-> 200, error |-> ""]

(***************************************************************************)
(* POST /connections                                                       *)
(***************************************************************************)
(* A duplicate check that looks in the requested direction only. *)
existingConnectionOneWay(conns, from, to) ==
    \E i \in 1..Len(conns) : conns[i].from = from /\ conns[i].to = to

existingConnection(conns, from, to) ==
    \E i \in 1..Len(conns) :
        \/ conns[i].from = from /\ conns[i].to = to
        \/ conns[i].from = to /\ conns[i].to = from

(* fromDevice.interfaceIPs[`to_${to}`] = fromRouterIP, creating the map. *)
setInterfaceIP(devs, i, peer, routerIP) ==
    LET old == IF devs[i].interfaceIPs = Null THEN <<>> ELSE devs[i].interfaceIPs[1]
    IN  [devs EXCEPT ![i].interfaceIPs = <<(("to_" \o peer) :> routerIP) @@ old>>]

postConnections(devs, conns, from, to, fromRouterIP, toRouterIP) ==
    LET fromDevice == findDevice(devs, from)
        toDevice == findDevice(devs, to)
        rejected(status, error) ==
            [devices |-> devs, connections |-> conns, status |-> status, error |-> error]
    IN  IF fromDevice = 0 \/ toDevice = 0
        THEN rejected(404, "One or both devices not found.")
        ELSE IF devs[fromDevice].type = "vm" /\ devs[toDevice].type = "vm"
        THEN rejected(400, "Connecting VM with VM is prohibited.")
        ELSE IF existingConnection(conns, from, to)
        THEN rejected(400, "Connection already exists between these devices")
        ELSE LET newConnection == [from |-> from, to |-> to,
                                   fromRouterIP |-> fromRouterIP,
                                   toRouterIP |-> toRouterIP]
                 devs1 == IF fromRouterIP # Null /\ devs[fromDevice].type = "router"
                          THEN setInterfaceIP(devs, fromDevice, to, fromRouterIP)
                          ELSE devs
                 devs2 == IF toRouterIP # Null /\ devs1[toDevice].type = "router"
                          THEN setInterfaceIP(devs1, toDevice, from, toRouterIP)
                          ELSE devs1
             IN  [devices |-> devs2, connections |-> Append(conns, newConnection),
                  status |-> 200, error |-> ""]

(***************************************************************************)
(* analyzeConnectionBasedTopology: one pass over the connections, in       *)
(* stored order.  The accumulator holds the locals of the function;        *)
(* networkSegments is a Map, kept here as the sequence of its values in    *)
(* insertion order; threw records a TypeError raised by the pass.          *)
(***************************************************************************)
connectionKey(from, to) == from \o "-" \o to

(* ipParts.length === 4 && ipParts.every(part => !isNaN(part) && part >= 0 && part <= 255) *)
validQuad(ipParts) == Len(ipParts) = 4 /\ \A i \in 1..4 : ipParts[i] >= 0 /\ ipParts[i] <= 255

candidateIPs(devs, connItem) ==
    LET fromDevice == findDevice(devs, connItem.from)
        toDevice == findDevice(devs, connItem.to)
        opt(ip) == IF ip # Null THEN <<ip>> ELSE <<>>
    IN  opt(connItem.fromRouterIP) \o opt(connItem.toRouterIP)
        \o (IF fromDevice # 0 THEN opt(devs[fromDevice].ip) ELSE <<>>)
        \o (IF toDevice # 0 THEN opt(devs[toDevice].ip) ELSE <<>>)

(* A derivation that always takes the synthetic base. *)
deriveNetworkBaseSynthetic(connectionIPs, segmentCounter) == <<192, 168, segmentCounter>>

deriveNetworkBase(connectionIPs, segmentCounter) ==
    IF Len(connectionIPs) > 0 /\ validQuad(connectionIPs[1])
    THEN SubSeq(connectionIPs[1], 1, 3)
    ELSE <<192, 168, segmentCounter>>

analyzeConnection(devs, acc, connItem) ==
    LET key == connectionKey(connItem.from, connItem.to)
        reverseKey == connectionKey(connItem.to, connItem.from)
    IN  IF acc.threw \/ key \in acc.processedConnections
                     \/ reverseKey \in acc.processedConnections
        THEN acc
        ELSE LET segmentName == "net" \o ToString(acc.segmentCounter)
                 connectionIPs == candidateIPs(devs, connItem)
                 networkBase == deriveNetworkBase(connectionIPs, acc.segmentCounter)
                 segment == [name |-> segmentName,
                             subnet |-> <<networkBase \o <<0>>, 24>>,
                             networkBase |-> networkBase,
                             devices |-> <<connItem.from, connItem.to>>,
                             connectionId |-> key,
                             detectedFromIP |-> IF Len(connectionIPs) > 0
                                                THEN connectionIPs[1] ELSE Null,
                             allConnectionIPs |-> connectionIPs]
             IN  IF connItem.from \notin DOMAIN acc.deviceNetworks
                    \/ connItem.to \notin DOMAIN acc.deviceNetworks
                 THEN [acc EXCEPT !.threw = TRUE]
                 ELSE [acc EXCEPT
                         !.networkSegments = Append(@, segment),
                         !.deviceNetworks =
                             [[@ EXCEPT ![connItem.from] = Append(@, segmentName)]
                                 EXCEPT ![connItem.to] = Append(@, segmentName)],
                         !.processedConnections = @ \cup {key, reverseKey},
                         !.segmentCounter = @ + 1]

RECURSIVE analyzeFrom(_, _, _, _)
analyzeFrom(devs, conns, i, acc) ==
    IF i > Len(conns) THEN acc
    ELSE analyzeFrom(devs, conns, i + 1, analyzeConnection(devs, acc, conns[i]))

analyzeConnectionBasedTopology(devs, conns) ==
    analyzeFrom(devs, conns, 1,
                [segmentCounter |-> 1,
                 processedConnections |-> {},
                 networkSegments |-> <<>>,
                 deviceNetworks |-> [id \in {devs[i].id : i \in 1..Len(devs)} |-> <<>>],
                 threw |-> FALSE])

(***************************************************************************)
(* generateConnectionBasedIPAssignments                                    *)
(***************************************************************************)
(* networkSegments.get(networkName); 0 stands for undefined. *)
getSegment(networkSegments, networkName) ==
    LET hits == {i \in 1..Len(networkSegments) : networkSegments[i].name = networkName}
    IN  IF hits = {} THEN 0 ELSE Min(hits)

(* connections.find(conn => joins the segment's two devices); 0 stands for undefined. *)
findSegmentConn(conns, segment) ==
    LET hits == {i \in 1..Len(conns) :
                    \/ conns[i].from = segment.devices[1] /\ conns[i].to = segment.devices[2]
                    \/ conns[i].from = segment.devices[2] /\ conns[i].to = segment.devices[1]}
    IN  IF hits = {} THEN 0 ELSE Min(hits)

(* segment.devices.find(d => d !== device.id), as it prints in a template. *)
otherDeviceIdOf(segment, device) ==
    IF segment.devices[1] # device.id THEN segment.devices[1]
    ELSE IF segment.devices[2] # device.id THEN segment.devices[2]
    ELSE Undefined

(* A router branch that skips the stored interface addresses. *)
routerIPNoStored(device, segment, conns, segmentConn) ==
    IF segmentConn # 0 /\ conns[segmentConn].from = device.id
       /\ conns[segmentConn].fromRouterIP # Null
    THEN [ip |-> conns[segmentConn].fromRouterIP, isCustomIP |-> TRUE]
    ELSE IF segmentConn # 0 /\ conns[segmentConn].to = device.id
            /\ conns[segmentConn].toRouterIP # Null
    THEN [ip |-> conns[segmentConn].toRouterIP, isCustomIP |-> TRUE]
    ELSE [ip |-> segment.networkBase \o <<1>>, isCustomIP |-> FALSE]

(* The router branch: connection-level address, stored interface address, .1 *)
routerIP(device, segment, conns, segmentConn) ==
    LET fromConn ==
            IF segmentConn = 0 THEN Null
            ELSE IF conns[segmentConn].from = device.id
                    /\ conns[segmentConn].fromRouterIP # Null
            THEN conns[segmentConn].fromRouterIP
            ELSE IF conns[segmentConn].to = device.id
                    /\ conns[segmentConn].toRouterIP # Null
            THEN conns[segmentConn].toRouterIP
            ELSE Null
        interfaceKey == "to_" \o otherDeviceIdOf(segment, device)
        stored ==
            IF fromConn = Null /\ device.interfaceIPs # Null
               /\ interfaceKey \in DOMAIN device.interfaceIPs[1]
               /\ device.interfaceIPs[1][interfaceKey] # Null
            THEN device.interfaceIPs[1][interfaceKey]
            ELSE Null
    IN  IF fromConn # Null THEN [ip |-> fromConn, isCustomIP |-> TRUE]
        ELSE IF stored # Null THEN [ip |-> stored, isCustomIP |-> TRUE]
        ELSE [ip |-> segment.networkBase \o <<1>>, isCustomIP |-> FALSE]

(* A non-router branch that gives a switch the host number 2. *)
nonRouterIPSwitch2(devs, device, segment, index) ==
    IF index = 0 /\ device.ip # Null
    THEN [ip |-> device.ip, isCustomIP |-> TRUE]
    ELSE IF device.type = "switch"
    THEN [ip |-> segment.networkBase \o <<2>>, isCustomIP |-> FALSE]
    ELSE LET otherDevice == findDevice(devs, otherDeviceIdOf(segment, device))
         IN  IF otherDevice # 0 /\ devs[otherDevice].type = "router"
             THEN [ip |-> segment.networkBase \o <<10>>, isCustomIP |-> FALSE]
             ELSE [ip |-> segment.networkBase \o <<11>>, isCustomIP |-> FALSE]

(* The non-router branch: static ip on the first interface, else .10 / .11 *)
nonRouterIP(devs, device, segment, index) ==
    IF index = 0 /\ device.ip # Null
    THEN [ip |-> device.ip, isCustomIP |-> TRUE]
    ELSE LET otherDevice == findDevice(devs, otherDeviceIdOf(segment, device))
         IN  IF otherDevice # 0 /\ devs[otherDevice].type = "router"
             THEN [ip |-> segment.networkBase \o <<10>>, isCustomIP |-> FALSE]
             ELSE [ip |-> segment.networkBase \o <<11>>, isCustomIP |-> FALSE]

gatewayIP(devs, conns, segment, segmentConn) ==
    LET fromDev == IF segmentConn = 0 THEN 0 ELSE findDevice(devs, conns[segmentConn].from)
        toDev == IF segmentConn = 0 THEN 0 ELSE findDevice(devs, conns[segmentConn].to)
    IN  IF fromDev # 0 /\ devs[fromDev].type = "router"
           /\ conns[segmentConn].fromRouterIP # Null
        THEN conns[segmentConn].fromRouterIP
        ELSE IF toDev # 0 /\ devs[toDev].type = "router"
                /\ conns[segmentConn].toRouterIP # Null
        THEN conns[segmentConn].toRouterIP
        ELSE segment.networkBase \o <<1>>

(* The body of deviceNetworkList.forEach((networkName, index) => ...): the *)
(* assignments pushed for one entry (none when the segment is unknown).    *)
assignmentFor(devs, conns, networkSegments, device, networkName, index) ==
    LET s == getSegment(networkSegments, networkName)
    IN  IF s = 0 THEN <<>>
        ELSE LET segment == networkSegments[s]
                 segmentConn == findSegmentConn(conns, segment)
                 addr == IF device.type = "router"
                         THEN routerIP(device, segment, conns, segmentConn)
                         ELSE nonRouterIP(devs, device, segment, index)
             IN  <<[network |-> networkName,
                    ip |-> addr.ip,
                    subnet |-> segment.subnet,
                    gateway |-> gatewayIP(devs, conns, segment, segmentConn),
                    interfaceName |-> "eth" \o ToString(index + 1),
                    isCustomIP |-> addr.isCustomIP,
                    connectionId |-> segment.connectionId]>>

RECURSIVE assignmentsFrom(_, _, _, _, _, _)
assignmentsFrom(devs, conns, networkSegments, device, deviceNetworkList, index) ==
    IF index >= Len(deviceNetworkList) THEN <<>>
    ELSE assignmentFor(devs, conns, networkSegments, device,
                       deviceNetworkList[index + 1], index)
         \o assignmentsFrom(devs, conns, networkSegments, device,
                            deviceNetworkList, index + 1)

(* ipAssignments is a Map keyed by device id (a later device with the same *)
(* id would overwrite an earlier one).                                     *)
generateConnectionBasedIPAssignments(devs, conns) ==
    LET topo == analyzeConnectionBasedTopology(devs, conns)
        ids == {devs[i].id : i \in 1..Len(devs)}
        last(id) == CHOOSE i \in 1..Len(devs) :
                        devs[i].id = id /\ \A j \in (i + 1)..Len(devs) : devs[j].id # id
    IN  [threw |-> topo.threw,
         networkSegments |-> topo.networkSegments,
         deviceNetworks |-> topo.deviceNetworks,
         ipAssignments |->
            IF topo.threw THEN <<>>
            ELSE [id \in ids |->
                    assignmentsFrom(devs, conns, topo.networkSegments, devs[last(id)],
                                    topo.deviceNetworks[id], 0)]]

(***************************************************************************)
(* Text.  A cpu, memory or storage value is the sequence of its            *)
(* characters; the empty string and an absent value are both falsy and     *)
(* are both Null.                                                          *)
(***************************************************************************)
Digits == <<"0", "1", "2", "3", "4", "5", "6", "7", "8", "9">>

UpperCase == <<"A", "B", "C", "D", "E", "F", "G", "H", "I", "J", "K", "L", "M",
               "N", "O", "P", "Q", "R", "S", "T", "U", "V", "W", "X", "Y", "Z">>

LowerCase == <<"a", "b", "c", "d", "e", "f", "g", "h", "i", "j", "k", "l", "m",
               "n", "o", "p", "q", "r", "s", "t", "u", "v", "w", "x", "y", "z">>

(* \d *)
isDigit(c) == \E i \in 1..Len(Digits) : Digits[i] = c

digitValue(c) == (CHOOSE i \in 1..Len(Digits) : Digits[i] = c) - 1

(* The i flag of a regular expression: letters compare by their lower case. *)
lowerChar(c) ==
    IF \E i \in 1..Len(UpperCase) : UpperCase[i] = c
    THEN LowerCase[CHOOSE i \in 1..Len(UpperCase) : UpperCase[i] = c]
    ELSE c

(* \s *)
isSpace(c) == c = " "

(* parseInt of a run of digits. *)
RECURSIVE parseInt(_)
parseInt(run) ==
    IF Len(run) = 0 THEN 0
    ELSE 10 * parseInt(SubSeq(run, 1, Len(run) - 1)) + digitValue(run[Len(run)])

(* text.match(/\d+/): the leftmost longest run of digits as <<run>>, Null  *)
(* when the text holds no digit.                                           *)
matchDigits(text) ==
    LET starts == {i \in 1..Len(text) : isDigit(text[i])}
    IN  IF starts = {} THEN Null
        ELSE LET first == Min(starts)
                 last == Min({j \in first..Len(text) :
                                 j = Len(text) \/ ~isDigit(text[j + 1])})
             IN  <<SubSeq(text, first, last)>>

(* text.replace(/(\d+)<unit>B?$/i, '$1<out>'), or without the B? when      *)
(* withB is FALSE.                                                         *)
replaceUnit(text, unit, withB, out) ==
    LET n == Len(text)
    IN  IF withB /\ n >= 3 /\ lowerChar(text[n]) = "b"
           /\ lowerChar(text[n - 1]) = unit /\ isDigit(text[n - 2])
        THEN SubSeq(text, 1, n - 2) \o out
        ELSE IF n >= 2 /\ lowerChar(text[n]) = unit /\ isDigit(text[n - 1])
        THEN SubSeq(text, 1, n - 1) \o out
        ELSE text

DefaultStorage == <<"1", "0", "G", "i">>

normalizeStorageQuantity(storage) ==
    IF storage = Null THEN DefaultStorage
    ELSE LET cleaned == SelectSeq(storage, LAMBDA c : ~isSpace(c))
             r1 == replaceUnit(cleaned, "g", TRUE, <<"G", "i">>)
             r2 == replaceUnit(r1, "m", TRUE, <<"M", "i">>)
             r3 == replaceUnit(r2, "t", TRUE, <<"T", "i">>)
             r4 == replaceUnit(r3, "g", FALSE, <<"G", "i">>)
             r5 == replaceUnit(r4, "m", FALSE, <<"M", "i">>)
             r6 == replaceUnit(r5, "t", FALSE, <<"T", "i">>)
         IN  IF r6 = <<>> THEN DefaultStorage ELSE r6

(* device.memory.replace(/Gi|GB/i, 'G'), or the default of the type. *)
memoryOf(device) ==
    IF device.memory = Null
    THEN (IF device.type = "vm" THEN <<"2", "G">> ELSE <<"1", "G">>)
    ELSE LET text == device.memory
             hits == {i \in 1..(Len(text) - 1) :
                         /\ lowerChar(text[i]) = "g"
                         /\ lowerChar(text[i + 1]) \in {"i", "b"}}
         IN  IF hits = {} THEN text
             ELSE SubSeq(text, 1, Min(hits) - 1) \o <<"G">>
                  \o SubSeq(text, Min(hits) + 2, Len(text))

(* parseInt(device.cpu.match(/\d+/)[0]) || 1, or the default of the type;  *)
(* indexing the null result of match throws a TypeError.                   *)
cpuOf(device) ==
    IF device.cpu = Null
    THEN [threw |-> FALSE, cores |-> IF device.type = "router" THEN 2 ELSE 1]
    ELSE IF matchDigits(device.cpu) = Null
    THEN [threw |-> TRUE, cores |-> 0]
    ELSE [threw |-> FALSE,
          cores |-> IF parseInt(matchDigits(device.cpu)[1]) = 0 THEN 1
                    ELSE parseInt(matchDigits(device.cpu)[1])]

(***************************************************************************)
(* Rendering.  The manifest text is the sequence of its components (the    *)
(* parts joined by '\n---\n'), each a record of the values interpolated    *)
(* into its template: kind "#" is a comment-only component.                *)
(***************************************************************************)
(* String.prototype.toLowerCase on the device ids of the model: the ids    *)
(* with an upper-case letter, and their lower-case forms.                  *)
IdLowerCase == ("R1" :> "r1")

toLowerCase(id) == IF id \in DOMAIN IdLowerCase THEN IdLowerCase[id] ELSE id

(* The device ids of the model in the order of Array.prototype.sort (by    *)
(* UTF-16 code unit).                                                      *)
IdOrder ==
    <<"R1", "d1", "d2", "hub", "p1", "p10", "p11", "p12", "p13", "p14", "p15",
      "p16", "p17", "p2", "p3", "p4", "p5", "p6", "p7", "p8", "p9",
      "r1", "r1-s", "s-r1", "v1">>

(* Array.from(ipAssignments.keys()).sort()[0] *)
firstSorted(ids) ==
    IdOrder[Min({i \in 1..Len(IdOrder) : IdOrder[i] \in ids})]

(* new Date().toISOString() of an instant [date, hour, minute, second]. *)
toISOString(now) ==
    now.date \o "T" \o now.hour \o ":" \o now.minute \o ":" \o now.second \o "Z"

(* toISOString().slice(0, 16).replace(/[:.T]/g, '').toLowerCase() *)
timestampOf(now) == now.date \o now.hour \o now.minute

comment(text) == [kind |-> "#", text |-> text]

(* segment.subnet.replace(/[/.]/g, '-') *)
subnetLabel(subnet) ==
    ToString(subnet[1][1]) \o "-" \o ToString(subnet[1][2]) \o "-"
    \o ToString(subnet[1][3]) \o "-" \o ToString(subnet[1][4]) \o "-"
    \o ToString(subnet[2])

networkAttachmentDefinition(segment) ==
    LET networkIPParts == segment.subnet[1]
        networkBase == SubSeq(networkIPParts, 1, 3)
    IN  [kind |-> "NetworkAttachmentDefinition",
         name |-> segment.name,
         subnetLabel |-> subnetLabel(segment.subnet),
         networkOctet |-> ToString(networkIPParts[3]),
         bridge |-> "br" \o ToString(networkIPParts[3]),
         subnet |-> segment.subnet,
         rangeStart |-> networkBase \o <<10>>,
         rangeEnd |-> networkBase \o <<200>>]

generateNetworkAttachmentDefinitions(networkSegments) ==
    <<comment("Network Attachment Definitions")>>
    \o [k \in 1..Len(networkSegments) |-> networkAttachmentDefinition(networkSegments[k])]

generateDevicePVC(device) ==
    [kind |-> "PersistentVolumeClaim",
     name |-> toLowerCase(device.id) \o "-pvc",
     deviceType |-> device.type,
     deviceId |-> device.id,
     storage |-> IF device.storage # Null THEN normalizeStorageQuantity(device.storage)
                 ELSE DefaultStorage]

generateCloudInitForDevice(device, assignments) ==
    [hostname |-> toLowerCase(device.id),
     addresses |-> [n \in 1..Len(assignments) |->
                        [iface |-> "enp" \o ToString(n + 1) \o "s0",
                         name |-> "eth" \o ToString(n),
                         ip |-> assignments[n].ip]],
     ipForward |-> Len(assignments) > 0 /\ device.type = "router",
     defaultRoute |-> IF device.type = "vm" /\ Len(assignments) > 0
                      THEN <<assignments[1].gateway>> ELSE Null,
     runcmd |-> IF Len(assignments) > 0 THEN "/tmp/net.sh" ELSE "dhclient enp1s0"]

(* The length in characters of an address as it prints in a template:     *)
(* the decimal texts of its parts joined by dots.                          *)
RECURSIVE ipLength(_)
ipLength(ip) ==
    IF Len(ip) = 0 THEN 0
    ELSE Len(ToString(Head(ip))) + (IF Len(ip) > 1 THEN 1 ELSE 0) + ipLength(Tail(ip))

RECURSIVE addressesLength(_)
addressesLength(addresses) ==
    IF Len(addresses) = 0 THEN 0
    ELSE 86 + Len(Head(addresses).iface) + 3 * Len(Head(addresses).name)
         + ipLength(Head(addresses).ip) + addressesLength(Tail(addresses))

(* Buffer.byteLength(config, 'utf8') of the script the record stands for:  *)
(* the fixed characters of each template literal that was appended, plus   *)
(* the texts interpolated into it (all of them ASCII).                     *)
byteLength(config) ==
    133 + Len(config.hostname)
    + (IF config.runcmd = "/tmp/net.sh"
       THEN 104 + addressesLength(config.addresses)
            + (IF config.ipForward THEN 75 ELSE 0)
            + (IF config.defaultRoute # Null
               THEN 194 + ipLength(config.defaultRoute[1]) ELSE 0)
            + 22
       ELSE 26)

(* An interface list without the default interface. *)
vmInterfacesBare(assignments) ==
    [n \in 1..Len(assignments) |-> [name |-> assignments[n].network,
                                    binding |-> "bridge"]]

(* The interfaces and networks lists of a machine. *)
vmInterfaces(assignments) ==
    <<[name |-> "default", binding |-> "masquerade"]>>
    \o [n \in 1..Len(assignments) |-> [name |-> assignments[n].network,
                                        binding |-> "bridge"]]

(* A networks list that binds every interface to the first attachment. *)
vmNetworksFirst(assignments) ==
    <<[name |-> "default", source |-> "pod", networkName |-> ""]>>
    \o [n \in 1..Len(assignments) |-> [name |-> assignments[n].network,
                                        source |-> "multus",
                                        networkName |-> assignments[1].network]]

vmNetworks(assignments) ==
    <<[name |-> "default", source |-> "pod", networkName |-> ""]>>
    \o [n \in 1..Len(assignments) |-> [name |-> assignments[n].network,
                                        source |-> "multus",
                                        networkName |-> assignments[n].network]]

(* A claim name that carries the minute of the request. *)
vmClaimNameStamped(device, timestamp) ==
    toLowerCase(device.id) \o "-pvc-" \o timestamp

(* pvcName *)
vmClaimName(device, timestamp) == toLowerCase(device.id) \o "-pvc"

(* <<document>>, or Null when the template throws. *)
generateNetworkedKubeVirtVM(device, ipAssignments, now) ==
    LET timestamp == timestampOf(now)
        assignments == ipAssignments[device.id]
    IN  IF cpuOf(device).threw THEN Null
        ELSE <<[kind |-> "VirtualMachine",
                name |-> toLowerCase(device.id) \o "-" \o timestamp,
                deviceType |-> device.type,
                deviceId |-> device.id,
                deploymentId |-> timestamp,
                affinity |-> device.id # firstSorted(DOMAIN ipAssignments),
                cores |-> cpuOf(device).cores,
                interfaces |-> vmInterfaces(assignments),
                memory |-> memoryOf(device),
                networks |-> vmNetworks(assignments),
                claimName |-> vmClaimName(device, timestamp),
                userData |-> generateCloudInitForDevice(device, assignments)]>>

(* devices.forEach(device => components.push(generateNetworkedKubeVirtVM)) *)
machines(devs, ipAssignments, now) ==
    [i \in 1..Len(devs) |-> generateNetworkedKubeVirtVM(devs[i], ipAssignments, now)]

claims(devs) == [i \in 1..Len(devs) |-> generateDevicePVC(devs[i])]

(***************************************************************************)
(* The three generators.  Each returns threw (an exception left the        *)
(* generator), the output of the assigner when it ran, and the components  *)
(* of the text.                                                            *)
(***************************************************************************)
compiledOf(out) ==
    <<[networkSegments |-> out.networkSegments,
       deviceNetworks |-> out.deviceNetworks,
       ipAssignments |-> out.ipAssignments]>>

generateKubeVirtInfrastructure(devs, conns, now) ==
    LET out == generateConnectionBasedIPAssignments(devs, conns)
        vms == IF out.threw THEN <<>> ELSE machines(devs, out.ipAssignments, now)
        threw == out.threw \/ \E i \in 1..Len(vms) : vms[i] = Null
    IN  [threw |-> threw,
         compiled |-> IF threw THEN Null ELSE compiledOf(out),
         documents |->
            IF threw THEN <<>>
            ELSE <<[kind |-> "#", text |-> "KubeVirt Infrastructure",
                    generated |-> toISOString(now),
                    devices |-> Len(devs), connections |-> Len(conns)]>>
                 \o generateNetworkAttachmentDefinitions(out.networkSegments)
                 \o <<comment("Persistent Volume Claims")>>
                 \o claims(devs)
                 \o <<comment("Virtual Machines")>>
                 \o [i \in 1..Len(vms) |-> vms[i][1]]]

(* A machines-only generator that also emits the storage claims. *)
generateVMsOnlyWithClaims(devs, conns, now) ==
    LET out == generateConnectionBasedIPAssignments(devs, conns)
        vms == IF out.threw THEN <<>> ELSE machines(devs, out.ipAssignments, now)
        threw == out.threw \/ \E i \in 1..Len(vms) : vms[i] = Null
    IN  [threw |-> threw,
         compiled |-> IF threw THEN Null ELSE compiledOf(out),
         documents |->
            IF threw THEN <<>>
            ELSE <<[kind |-> "#", text |-> "KubeVirt VMs",
                    generated |-> toISOString(now)]>>
                 \o claims(devs)
                 \o <<comment("Virtual Machines")>>
                 \o [i \in 1..Len(vms) |-> vms[i][1]]]

generateVMsOnly(devs, conns, now) ==
    LET out == generateConnectionBasedIPAssignments(devs, conns)
        vms == IF out.threw THEN <<>> ELSE machines(devs, out.ipAssignments, now)
        threw == out.threw \/ \E i \in 1..Len(vms) : vms[i] = Null
    IN  [threw |-> threw,
         compiled |-> IF threw THEN Null ELSE compiledOf(out),
         documents |->
            IF threw THEN <<>>
            ELSE <<[kind |-> "#", text |-> "KubeVirt VMs",
                    generated |-> toISOString(now)]>>
                 \o <<comment("Virtual Machines")>>
                 \o [i \in 1..Len(vms) |-> vms[i][1]]]

(* This generator runs the analyzer only: no assigner output. *)
generatePVCsOnly(devs, conns, now) ==
    LET topo == analyzeConnectionBasedTopology(devs, conns)
    IN  [threw |-> topo.threw,
         compiled |-> Null,
         documents |->
            IF topo.threw THEN <<>>
            ELSE <<[kind |-> "#", text |-> "KubeVirt PVCs and Networks",
                    generated |-> toISOString(now)]>>
                 \o generateNetworkAttachmentDefinitions(topo.networkSegments)
                 \o <<comment("Persistent Volume Claims")>>
                 \o claims(devs)]

(***************************************************************************)
(* GET /export/kubevirt, /export/kubevirt-pvcs, /export/kubevirt-vms       *)
(***************************************************************************)
(* A guard that lets every device list through. *)
noDevicesNever(devs) == FALSE

(* devices.length === 0 *)
noDevices(devs) == Len(devs) = 0

NoDevicesError == "No devices to export. Please add some devices first."

(* The route around a generator's result: 400, 500 from the catch, or 200. *)
exportRoute(devs, generated, failure) ==
    IF noDevices(devs)
    THEN [status |-> 400, error |-> NoDevicesError, compiled |-> Null, documents |-> <<>>]
    ELSE IF generated.threw
    THEN [status |-> 500, error |-> failure, compiled |-> Null, documents |-> <<>>]
    ELSE [status |-> 200, error |-> "", compiled |-> generated.compiled,
          documents |-> generated.documents]

(* An export whose segment names carry the minute of the request. *)
exportKubevirtStamped(devs, conns, now) ==
    LET out == exportRoute(devs, generateKubeVirtInfrastructure(devs, conns, now),
                           "Failed to export KubeVirt configuration")
        stamped(segments) ==
            [k \in 1..Len(segments) |->
                [segments[k] EXCEPT !.name = @ \o "-" \o timestampOf(now)]]
    IN  IF out.compiled = Null THEN out
        ELSE [out EXCEPT !.compiled =
                <<[@[1] EXCEPT !.networkSegments = stamped(@)]>>]

exportKubevirt(devs, conns, now) ==
    exportRoute(devs, generateKubeVirtInfrastructure(devs, conns, now),
                "Failed to export KubeVirt configuration")

exportKubevirtPVCs(devs, conns, now) ==
    exportRoute(devs, generatePVCsOnly(devs, conns, now),
                "Failed to export KubeVirt PVCs")

exportKubevirtVMs(devs, conns, now) ==
    exportRoute(devs, generateVMsOnly(devs, conns, now),
                "Failed to export KubeVirt VMs")

(***************************************************************************)
(* The requests.  response is the export response in flight: <<[mode,      *)
(* status, error, documents]>> after an export request, Null after any     *)
(* other request.  manifest is the assigner output that response was       *)
(* rendered from: <<output>> after a successful export that ran the        *)
(* assigner, Null otherwise.                                               *)
(***************************************************************************)
(* Instants at which an export is served. *)
FirstInstant ==
    [date |-> "2024-05-01", hour |-> "10", minute |-> "15", second |-> "30.000"]

LaterInstant ==
    [date |-> "2024-05-01", hour |-> "10", minute |-> "16", second |-> "02.500"]

Timestamps == {FirstInstant, LaterInstant}

responseOf(mode, out) ==
    <<[mode |-> mode, status |-> out.status, error |-> out.error,
       documents |-> out.documents]>>

Init ==
    /\ devices = <<>>
    /\ connections = <<>>
    /\ manifest = Null
    /\ response = Null

ClearDatabase ==
    /\ devices' = clearDatabase.devices
    /\ connections' = clearDatabase.connections
    /\ manifest' = Null
    /\ response' = Null

CreateDevice(id, type, cpu, memory, storage, ip, interfaceIPs) ==
    LET out == postDevices(devices, id, type, cpu, memory, storage, ip, interfaceIPs)
    IN  /\ Len(out.devices) <= MaxDevices
        /\ devices' = out.devices
        /\ manifest' = Null
        /\ response' = Null
        /\ UNCHANGED connections

DeleteDevice(deviceId) ==
    LET out == devicesDelete(devices, connections, deviceId)
    IN  /\ devices' = out.devices
        /\ connections' = out.connections
        /\ manifest' = Null
        /\ response' = Null

CreateConnection(from, to, fromRouterIP, toRouterIP) ==
    LET out == postConnections(devices, connections, from, to, fromRouterIP, toRouterIP)
    IN  /\ Len(out.connections) <= MaxConnections
        /\ devices' = out.devices
        /\ connections' = out.connections
        /\ manifest' = Null
        /\ response' = Null

ExportKubevirt(now) ==
    LET out == exportKubevirt(devices, connections, now)
    IN  /\ manifest' = out.compiled
        /\ response' = responseOf("kubevirt", out)
        /\ UNCHANGED <<devices, connections>>

ExportKubevirtPVCs(now) ==
    LET out == exportKubevirtPVCs(devices, connections, now)
    IN  /\ manifest' = out.compiled
        /\ response' = responseOf("kubevirt-pvcs", out)
        /\ UNCHANGED <<devices, connections>>

ExportKubevirtVMs(now) ==
    LET out == exportKubevirtVMs(devices, connections, now)
    IN  /\ manifest' = out.compiled
        /\ response' = responseOf("kubevirt-vms", out)
        /\ UNCHANGED <<devices, connections>>

Requests(deviceRequests, connectionRequests, instants) ==
    \/ ClearDatabase
    \/ \E r \in deviceRequests :
            CreateDevice(r.id, r.type, r.resources.cpu, r.resources.memory,
                         r.resources.storage, r.ip, r.interfaceIPs)
    \/ \E id \in {r.id : r \in deviceRequests} : DeleteDevice(id)
    \/ \E r \in connectionRequests :
            CreateConnection(r.from, r.to, r.fromRouterIP, r.toRouterIP)
    \/ \E now \in instants : ExportKubevirt(now)

Next == Requests(RegistryDeviceRequests, RegistryConnectionRequests, {FirstInstant})

Spec == Init /\ [][Next]_vars

NextAddr == Requests(AddrDeviceRequests, AddrConnectionRequests, {FirstInstant})

SpecAddr == Init /\ [][NextAddr]_vars

(* The rendering requests: every request of the API, with the three export *)
(* routes; the claims-only and machines-only exports at one instant each.  *)
NextRender ==
    \/ Requests(RenderDeviceRequests, RenderConnectionRequests, Timestamps)
    \/ ExportKubevirtPVCs(FirstInstant)
    \/ ExportKubevirtVMs(LaterInstant)

SpecRender == Init /\ [][NextRender]_vars

(* The addressing requests in which every device is created without an    *)
(* interfaceIPs map: a router's entries come from POST /connections only.  *)
LazyDeviceRequests == {r \in AddrDeviceRequests : r.interfaceIPs = Null}

NextLazy == Requests(LazyDeviceRequests, AddrConnectionRequests, {FirstInstant})

SpecLazy == Init /\ [][NextLazy]_vars

(***************************************************************************)
(* Star topologies.  The registry after POST /devices of a hub and of      *)
(* peers p1..pn and POST /connections from the hub to each peer in turn,   *)
(* built with the handlers themselves; the three exports are taken from    *)
(* it.  A hub with n peers has n assignments.                              *)
(***************************************************************************)
MaxPeers == 16

StarHub == "hub"

peer(k) == "p" \o ToString(k)

(* The registry after the next peer was created and connected to the hub. *)
addPeer(registry, peerType, k) ==
    LET added == postDevices(registry.devices, peer(k), peerType, Null, Null, Null,
                             Null, Null).devices
        joined == postConnections(added, registry.connections, StarHub, peer(k),
                                  Null, Null)
    IN  [devices |-> joined.devices, connections |-> joined.connections]

RECURSIVE starFrom(_, _, _, _)
starFrom(registry, peerType, k, n) ==
    IF k > n THEN registry
    ELSE LET next == addPeer(registry, peerType, k)
         IN  (* a request is served when the one before it has completed *)
             IF Len(next.devices) > 0 THEN starFrom(next, peerType, k + 1, n)
             ELSE next

starRegistry(hubType, peerType, n) ==
    starFrom([devices |-> postDevices(<<>>, StarHub, hubType, Null, Null, Null,
                                      Null, Null).devices,
              connections |-> <<>>],
             peerType, 1, n)

InitStar ==
    \E hubType \in DeviceTypes, peerType \in {"router", "switch"}, n \in 0..MaxPeers :
        /\ devices = starRegistry(hubType, peerType, n).devices
        /\ connections = starRegistry(hubType, peerType, n).connections
        /\ manifest = Null
        /\ response = Null

NextStar ==
    \/ ExportKubevirt(FirstInstant)
    \/ ExportKubevirtPVCs(FirstInstant)
    \/ ExportKubevirtVMs(FirstInstant)

SpecStar == InitStar /\ [][NextStar]_vars

(***************************************************************************)
(* Properties of the registry                                              *)
(***************************************************************************)
storedIds == {devices[i].id : i \in 1..Len(devices)}

endpoints(conn) == {conn.from, conn.to}

isVm(id) == findDevice(devices, id) # 0 /\ devices[findDevice(devices, id)].type = "vm"

connectionReply(r) ==
    postConnections(devices, connections, r.from, r.to, r.fromRouterIP, r.toRouterIP)

deviceReply(r) ==
    postDevices(devices, r.id, r.type, r.resources.cpu, r.resources.memory,
                r.resources.storage, r.ip, r.interfaceIPs)

rejectedConnection(r, status) ==
    /\ connectionReply(r).status = status
    /\ connectionReply(r).connections = connections
    /\ connectionReply(r).devices = devices

(* C1: the registry never holds two connections joining the same unordered *)
(* pair of device ids, and a connection-create for a pair that is already  *)
(* connected, in the same or the reverse direction, is rejected and        *)
(* changes nothing.                                                        *)
C1_NoDuplicatePair ==
    /\ \A i, j \in 1..Len(connections) :
          i # j => endpoints(connections[i]) # endpoints(connections[j])
    /\ \A r \in RegistryConnectionRequests :
          (\E i \in 1..Len(connections) : endpoints(connections[i]) = endpoints(r))
          => rejectedConnection(r, 400)

(* Two connections are stored and the reverse of one of them is refused. *)
C1_Witness ==
    /\ Len(connections) = 2
    /\ \E i \in 1..2 :
          /\ connections[i].from # connections[i].to
          /\ connectionReply([from |-> connections[i].to, to |-> connections[i].from,
                              fromRouterIP |-> Null, toRouterIP |-> Null]).error
             = "Connection already exists between these devices"

(* C2: both endpoints of every stored connection are ids of stored         *)
(* devices; a connection-create naming a missing device is rejected, and   *)
(* deleting a device removes every connection it is the from or the to     *)
(* endpoint of.                                                            *)
C2_EndpointsExist ==
    /\ \A i \in 1..Len(connections) : endpoints(connections[i]) \subseteq storedIds
    /\ \A r \in RegistryConnectionRequests :
          ~(endpoints(r) \subseteq storedIds) => rejectedConnection(r, 404)
    /\ \A id \in DeviceIds :
          LET out == devicesDelete(devices, connections, id)
          IN  /\ \A i \in 1..Len(out.devices) : out.devices[i].id # id
              /\ \A i \in 1..Len(out.connections) : id \notin endpoints(out.connections[i])

(* One id is not stored, the two stored devices are connected, and         *)
(* deleting the to endpoint removes the connection.                        *)
C2_Witness ==
    /\ Len(devices) = 2
    /\ Len(connections) = 1
    /\ connections[1].from # connections[1].to
    /\ devicesDelete(devices, connections, connections[1].to).connections = <<>>
    /\ \E r \in RegistryConnectionRequests :
          r.from = connections[1].from /\ r.to \notin storedIds
          /\ connectionReply(r).error = "One or both devices not found."

(* C3: no two stored devices have the same id; a device-create with the id *)
(* of a stored device is rejected and changes nothing, and an id that is   *)
(* not stored (never created, deleted, or cleared) is accepted.            *)
C3_UniqueIds ==
    /\ \A i, j \in 1..Len(devices) : i # j => devices[i].id # devices[j].id
    /\ \A r \in RegistryDeviceRequests :
          r.id \in storedIds
          => deviceReply(r).status = 400 /\ deviceReply(r).devices = devices
    /\ \A r \in RegistryDeviceRequests :
          (r.id \notin storedIds /\ r.ip = Null)
          => /\ deviceReply(r).status = 200
             /\ deviceReply(r).devices[Len(devices) + 1].id = r.id

(* Every id is stored and a create with a stored id and another type is    *)
(* refused.                                                                *)
C3_Witness ==
    /\ Len(devices) = 3
    /\ \E r \in RegistryDeviceRequests :
          /\ findDevice(devices, r.id) # 0
          /\ devices[findDevice(devices, r.id)].type # r.type
          /\ deviceReply(r).error = "Device with ID already exists"

(* C4: no stored connection has both endpoints of type vm; a               *)
(* connection-create between two vm devices is rejected and changes        *)
(* nothing, so no segment of a compiler output joins two vm devices.       *)
C4_NoVmToVm ==
    /\ \A i \in 1..Len(connections) :
          ~(isVm(connections[i].from) /\ isVm(connections[i].to))
    /\ \A r \in RegistryConnectionRequests :
          (isVm(r.from) /\ isVm(r.to)) => rejectedConnection(r, 400)
    /\ manifest # Null =>
          \A k \in 1..Len(manifest[1].networkSegments) :
              ~(isVm(manifest[1].networkSegments[k].devices[1])
                /\ isVm(manifest[1].networkSegments[k].devices[2]))

(* Two vm devices, each connected to the third device, and an export. *)
C4_Witness ==
    /\ manifest # Null
    /\ Len(connections) = 2
    /\ Cardinality({i \in 1..Len(devices) : devices[i].type = "vm"}) = 2
    /\ \E r \in RegistryConnectionRequests :
          /\ isVm(r.from) /\ isVm(r.to) /\ r.from # r.to
          /\ connectionReply(r).error = "Connecting VM with VM is prohibited."

(***************************************************************************)
(* Properties of the analyzer                                              *)
(***************************************************************************)
segmentsOf(body) == body[1].networkSegments

(* C5: the analyzer yields exactly one segment per stored connection: N    *)
(* connections give segments net1..netN in insertion order, the member     *)
(* pair of each segment is its connection's (from, to), and the segment    *)
(* name is in the segment list of both endpoints.  Device ids are          *)
(* arbitrary strings.                                                      *)
C5_OneSegmentPerConnection ==
    manifest # Null =>
        /\ Len(segmentsOf(manifest)) = Len(connections)
        /\ \A k \in 1..Len(segmentsOf(manifest)) :
              LET segment == segmentsOf(manifest)[k]
                  inList(id) == \E n \in 1..Len(manifest[1].deviceNetworks[id]) :
                                    manifest[1].deviceNetworks[id][n] = segment.name
              IN  /\ segment.name = "net" \o ToString(k)
                  /\ k <= Len(connections)
                  /\ segment.devices = <<connections[k].from, connections[k].to>>
                  /\ inList(segment.devices[1])
                  /\ inList(segment.devices[2])

(* C6: in every compiler output any two distinct segments have distinct    *)
(* subnets.                                                                *)
C6_DistinctSubnets ==
    manifest # Null =>
        \A k, l \in 1..Len(segmentsOf(manifest)) :
            k # l => segmentsOf(manifest)[k].subnet # segmentsOf(manifest)[l].subnet

(***************************************************************************)
(* Properties of the assigner                                              *)
(***************************************************************************)
deviceOf(id) == devices[findDevice(devices, id)]

(* The stored connection joining the two members of a segment. *)
connectionOf(segment) ==
    connections[CHOOSE i \in 1..Len(connections) :
                    endpoints(connections[i]) = {segment.devices[1], segment.devices[2]}]

(* The assignments of device id on the segment called name. *)
assignmentsOn(body, id, name) ==
    {body[1].ipAssignments[id][n] : n \in {m \in 1..Len(body[1].ipAssignments[id]) :
                                             body[1].ipAssignments[id][m].network = name}}

subnetOf(ip) == <<SubSeq(ip, 1, 3) \o <<0>>, 24>>

(* The router-side address recorded on connection c for router id. *)
connectionRouterIP(c, id) ==
    IF c.from = id /\ c.fromRouterIP # Null THEN c.fromRouterIP
    ELSE IF c.to = id /\ c.toRouterIP # Null THEN c.toRouterIP
    ELSE Null

(* The stored interfaceIPs entry of device d for the other member of the   *)
(* segment; absent when the segment has no other member.                   *)
storedRouterIP(d, segment) ==
    LET peers == {segment.devices[1], segment.devices[2]} \ {d.id}
    IN  IF peers = {} \/ d.interfaceIPs = Null THEN Null
        ELSE LET key == "to_" \o (CHOOSE p \in peers : TRUE)
             IN  IF key \in DOMAIN d.interfaceIPs[1] THEN d.interfaceIPs[1][key] ELSE Null

(* C7 as stated: a connection with an endpoint that has a static ip        *)
(* a.b.c.d gives the subnet a.b.c.0/24; a non-router endpoint with a       *)
(* static ip joined to a router with no router address on the connection   *)
(* keeps a.b.c.d, and that router gets a.b.c.1.                            *)
C7_StaticIPSubnet ==
    manifest # Null =>
        \A k \in 1..Len(segmentsOf(manifest)) :
            LET segment == segmentsOf(manifest)[k]
                c == connectionOf(segment)
                static == {id \in endpoints(c) : deviceOf(id).ip # Null}
            IN  static # {} =>
                  /\ \E id \in static : segment.subnet = subnetOf(deviceOf(id).ip)
                  /\ \A id \in static, r \in endpoints(c) :
                        (/\ deviceOf(id).type # "router"
                         /\ deviceOf(r).type = "router"
                         /\ connectionRouterIP(c, r) = Null)
                        => /\ \A a \in assignmentsOn(manifest, id, segment.name) :
                                 a.ip = deviceOf(id).ip
                           /\ \A a \in assignmentsOn(manifest, r, segment.name) :
                                 a.ip = SubSeq(deviceOf(id).ip, 1, 3) \o <<1>>

(* C7, amended: when the connection records no router address and an       *)
(* endpoint has a static ip, the subnet is a.b.c.0/24 of the first such    *)
(* endpoint (from before to); a non-router endpoint keeps its static ip on *)
(* its first interface, and a router endpoint with no stored interface     *)
(* address for its peer gets {networkBase}.1.                              *)
C7_StaticIPSubnetAmended ==
    manifest # Null =>
        \A k \in 1..Len(segmentsOf(manifest)) :
            LET segment == segmentsOf(manifest)[k]
                c == connectionOf(segment)
                first == IF deviceOf(c.from).ip # Null THEN deviceOf(c.from).ip
                         ELSE deviceOf(c.to).ip
            IN  (c.fromRouterIP = Null /\ c.toRouterIP = Null /\ first # Null) =>
                  /\ segment.subnet = subnetOf(first)
                  /\ segment.networkBase = SubSeq(first, 1, 3)
                  /\ \A id \in endpoints(c) :
                        (/\ deviceOf(id).type # "router"
                         /\ deviceOf(id).ip # Null
                         /\ manifest[1].ipAssignments[id][1].network = segment.name)
                        => manifest[1].ipAssignments[id][1].ip = deviceOf(id).ip
                  /\ \A r \in endpoints(c) :
                        (/\ deviceOf(r).type = "router"
                         /\ storedRouterIP(deviceOf(r), segment) = Null)
                        => \A a \in assignmentsOn(manifest, r, segment.name) :
                               a.ip = segment.networkBase \o <<1>>

(* A vm with a static ip joined to a router: the vm keeps its ip and the   *)
(* router gets host number 1 of the same /24.                              *)
C7_Witness ==
    /\ manifest # Null
    /\ Len(connections) = 1
    /\ connections[1].fromRouterIP = Null /\ connections[1].toRouterIP = Null
    /\ endpoints(connections[1]) = {"d1", "d2"}
    /\ deviceOf("d1").type = "router" /\ deviceOf("d1").interfaceIPs = Null
    /\ deviceOf("d2").type = "vm" /\ deviceOf("d2").ip = StaticIP
    /\ segmentsOf(manifest)[1].subnet = <<<<10, 5, 5, 0>>, 24>>
    /\ manifest[1].ipAssignments["d2"][1].ip = StaticIP
    /\ manifest[1].ipAssignments["d1"][1].ip = <<10, 5, 5, 1>>

(* C8: a router's address on a segment is the router-side address         *)
(* recorded on the underlying connection (fromRouterIP when the router is  *)
(* from, toRouterIP when it is to); when that is absent, the stored        *)
(* interfaceIPs[to_<peer>] value; when both are absent, {networkBase}.1.   *)
C8_RouterPriority ==
    manifest # Null =>
        \A i \in 1..Len(devices) :
            devices[i].type = "router" =>
                /\ Len(manifest[1].ipAssignments[devices[i].id])
                   = Len(manifest[1].deviceNetworks[devices[i].id])
                /\ \A n \in 1..Len(manifest[1].ipAssignments[devices[i].id]) :
                      LET a == manifest[1].ipAssignments[devices[i].id][n]
                          segment == segmentsOf(manifest)[getSegment(segmentsOf(manifest), a.network)]
                          onConnection == connectionRouterIP(connectionOf(segment), devices[i].id)
                          stored == storedRouterIP(devices[i], segment)
                      IN  /\ a.network = manifest[1].deviceNetworks[devices[i].id][n]
                          /\ a.ip = IF onConnection # Null THEN onConnection
                                    ELSE IF stored # Null THEN stored
                                    ELSE segment.networkBase \o <<1>>

(* Router d1 holds a stored address for d2: on a connection that records   *)
(* no router address it gets the stored one.                               *)
C8_WitnessStored ==
    /\ manifest # Null
    /\ Len(connections) = 1
    /\ endpoints(connections[1]) = {"d1", "d2"}
    /\ deviceOf("d1").type = "router"
    /\ connectionRouterIP(connections[1], "d1") = Null
    /\ manifest[1].ipAssignments["d1"][1].ip = StoredIP

C10_GatewayIsRouterAddress ==
    manifest # Null =>
        \A k \in 1..Len(segmentsOf(manifest)) :
            LET segment == segmentsOf(manifest)[k]
                routers == {id \in endpoints(connectionOf(segment)) :
                               deviceOf(id).type = "router"}
            IN  \A id \in endpoints(connectionOf(segment)) :
                    \A a \in assignmentsOn(manifest, id, segment.name) :
                        IF routers = {}
                        THEN a.gateway = segment.networkBase \o <<1>>
                        ELSE \E r \in routers :
                                \E b \in assignmentsOn(manifest, r, segment.name) :
                                    a.gateway = b.ip

(* C19: the assigner's output holds at most one assignment per (device,   *)
(* segment) pair, and exactly one when the device is a member of the       *)
(* segment: no device gets two interfaces on the same segment.             *)
C19_OneAssignmentPerSegment ==
    manifest # Null =>
        \A i \in 1..Len(devices), k \in 1..Len(segmentsOf(manifest)) :
            LET id == devices[i].id
                segment == segmentsOf(manifest)[k]
                onSegment == {n \in 1..Len(manifest[1].ipAssignments[id]) :
                                manifest[1].ipAssignments[id][n].network = segment.name}
            IN  /\ Cardinality(onSegment) <= 1
                /\ id \in {segment.devices[1], segment.devices[2]}
                   => Cardinality(onSegment) = 1

(* The candidate addresses of connection c, in the analyzer's order. *)
candidatesInOrder(c) ==
    SelectSeq(<<c.fromRouterIP, c.toRouterIP, deviceOf(c.from).ip, deviceOf(c.to).ip>>,
              LAMBDA ip : ip # Null)

(* C20: the subnet of a segment comes from the first valid dotted quad     *)
(* among fromRouterIP, toRouterIP, from-device ip, to-device ip; the       *)
(* synthetic 192.168.{counter}.0/24 is used exactly when no candidate is a *)
(* valid dotted quad.                                                      *)
C20_FirstValidCandidate ==
    manifest # Null =>
        \A k \in 1..Len(segmentsOf(manifest)) :
            LET segment == segmentsOf(manifest)[k]
                valid == SelectSeq(candidatesInOrder(connectionOf(segment)),
                                   LAMBDA ip : Len(ip) = 4 /\ \A j \in 1..4 : ip[j] \in 0..255)
            IN  segment.subnet = IF Len(valid) > 0 THEN subnetOf(valid[1])
                                 ELSE <<<<192, 168, k, 0>>, 24>>

exported(mode) ==
    response # Null /\ response[1].mode = mode /\ response[1].status = 200

(* The positions of the documents of a kind in the response in flight. *)
documentsOf(kind) ==
    {n \in 1..Len(response[1].documents) : response[1].documents[n].kind = kind}

(* The positions of the documents of a kind that carry the device id. *)
documentsFor(kind, id) ==
    {n \in documentsOf(kind) : response[1].documents[n].deviceId = id}

(* No stored device has a cpu text without a digit. *)
cpuTextsHaveDigits ==
    \A i \in 1..Len(devices) :
        devices[i].cpu # Null => \E n \in 1..Len(devices[i].cpu) : isDigit(devices[i].cpu[n])

statedStorage(text) ==
    LET n == Len(text)
        lower == [k \in 1..n |-> lowerChar(text[k])]
        unitLen == IF n >= 2 /\ lower[n] = "b" THEN 2 ELSE 1
        unit == IF n >= unitLen THEN lower[n - unitLen + 1] ELSE ""
        digits == SubSeq(text, 1, n - unitLen)
    IN  IF /\ n > unitLen
           /\ unit \in {"g", "m", "t"}
           /\ \A k \in 1..Len(digits) : isDigit(digits[k])
        THEN digits \o <<(CHOOSE c \in {"G", "M", "T"} : lowerChar(c) = unit), "i">>
        ELSE <<"1", "0", "G", "i">>

(* C13: the storage of every claim document is the device's storage text   *)
(* with its unit G/GB, M/MB, T/TB (any case) rewritten to Gi, Mi, Ti, and   *)
(* 10Gi when the text is absent, empty or unparseable.                     *)
C13_StorageNormalization ==
    (response # Null /\ response[1].status = 200) =>
        \A n \in documentsOf("PersistentVolumeClaim") :
            response[1].documents[n].storage
            = statedStorage(deviceOf(response[1].documents[n].deviceId).storage)

(* The number of cores a machine document is stated to carry: the digits   *)
(* of the cpu text, and the default of the type when there are none.       *)
statedCores(device) ==
    LET run == IF device.cpu = Null THEN Null ELSE matchDigits(device.cpu)
    IN  IF run # Null /\ parseInt(run[1]) # 0 THEN parseInt(run[1])
        ELSE IF device.cpu = Null /\ device.type = "router" THEN 2 ELSE 1

(* C14: with at least one device stored, no export request fails because   *)
(* of a malformed cpu, memory or storage text: every export answers 200     *)
(* with manifest text, and a machine whose cpu text holds no digit carries  *)
(* the default number of cores.                                            *)
C14_MalformedDegrades ==
    (response # Null /\ Len(devices) > 0) =>
        /\ response[1].status = 200
        /\ \A n \in documentsOf("VirtualMachine") :
              response[1].documents[n].cores
              = statedCores(deviceOf(response[1].documents[n].deviceId))

(* C15: with an empty device list each of the three exports is rejected    *)
(* with the no-devices error and gives no manifest text; with at least one  *)
(* device stored none of them answers with that error.                     *)
C15_NoDevicesRejected ==
    response # Null =>
        /\ Len(devices) = 0 =>
              /\ response[1].status = 400
              /\ response[1].error = NoDevicesError
              /\ response[1].documents = <<>>
              /\ manifest = Null
        /\ Len(devices) > 0 =>
              /\ response[1].status # 400
              /\ response[1].error # NoDevicesError

(* Each export has been rejected on an empty registry. *)
C15_Witness ==
    /\ response # Null
    /\ Len(devices) = 0
    /\ response[1].mode = "kubevirt-pvcs"
    /\ response[1].error = NoDevicesError

(* C16: the claim name a machine document refers to, in the machines-only  *)
(* export and in the full bundle, is the name of the device's storage       *)
(* claim in the claims-only export and in the full bundle taken at any      *)
(* instant, and is made of the device id alone.                            *)
C16_StableClaimName ==
    (response # Null /\ response[1].status = 200) =>
        \A n \in documentsOf("VirtualMachine") :
            LET id == response[1].documents[n].deviceId
                claim == response[1].documents[n].claimName
                names(documents, kind, field) ==
                    {documents[m][field] : m \in {k \in DOMAIN documents :
                        /\ documents[k].kind = kind
                        /\ documents[k].deviceId = id}}
            IN  /\ claim = toLowerCase(id) \o "-pvc"
                /\ \A now \in Timestamps :
                      LET pvcs == exportKubevirtPVCs(devices, connections, now)
                          full == exportKubevirt(devices, connections, now)
                          vms == exportKubevirtVMs(devices, connections, now)
                      IN  /\ pvcs.status = 200
                          /\ full.status = 200
                          /\ vms.status = 200
                          /\ names(pvcs.documents, "PersistentVolumeClaim", "name") = {claim}
                          /\ names(full.documents, "PersistentVolumeClaim", "name") = {claim}
                          /\ names(full.documents, "VirtualMachine", "claimName") = {claim}
                          /\ names(vms.documents, "VirtualMachine", "claimName") = {claim}

(* A machines-only export of a connected pair taken at the later instant,  *)
(* one id of which has upper-case letters.                                 *)
C16_Witness ==
    /\ response # Null
    /\ response[1].mode = "kubevirt-vms"
    /\ response[1].status = 200
    /\ Len(devices) = 2
    /\ Len(connections) > 0
    /\ \E n \in documentsOf("VirtualMachine") :
          /\ response[1].documents[n].deploymentId = timestampOf(LaterInstant)
          /\ response[1].documents[n].deviceId = "R1"
          /\ response[1].documents[n].claimName = "r1-pvc"

(* The documents of one kind in a manifest text, in their order. *)
ofKind(documents, kind) == SelectSeq(documents, LAMBDA d : d.kind = kind)

(* The instant a successful export response was generated at. *)
instantOf(r) ==
    CHOOSE now \in Timestamps : r.documents[1].generated = toISOString(now)

C18_ConfigMapOfConnections ==
    (response # Null /\ response[1].mode = "kubevirt" /\ response[1].status = 200) =>
        /\ \A i \in 1..Len(devices) :
              devices[i].type = "vm" =>
                  documentsFor("VirtualMachine", devices[i].id) # {}
        /\ documentsOf("ConfigMap") # {}

(***************************************************************************)
(* Properties of the first-boot script and of the machine documents.       *)
(***************************************************************************)
(* C21: the first-boot script of every router, whatever the number of its   *)
(* assignments, enables IP forwarding with the accept-all FORWARD rule, and *)
(* the script of no other device does.                                     *)
C21_RouterForwarding ==
    (response # Null /\ response[1].status = 200) =>
        \A n \in documentsOf("VirtualMachine") :
            response[1].documents[n].userData.ipForward
            = (response[1].documents[n].deviceType = "router")

(* C22: the first-boot script of every vm or switch with at least one       *)
(* assignment replaces the default route with one via the gateway of its    *)
(* first assignment; a router or a device without assignments gets no       *)
(* route change.                                                           *)
C22_NonRouterDefaultRoute ==
    (response # Null /\ response[1].status = 200 /\ manifest # Null) =>
        \A n \in documentsOf("VirtualMachine") :
            LET doc == response[1].documents[n]
                assignments == manifest[1].ipAssignments[doc.deviceId]
            IN  doc.userData.defaultRoute
                = IF doc.deviceType # "router" /\ Len(assignments) > 0
                  THEN <<assignments[1].gateway>> ELSE Null

(* The inline user-data ceiling of the hosting platform, in bytes. *)
UserDataLimit == 2048

(* C23: the first-boot script embedded in a machine document never exceeds  *)
(* the 2 KB inline user-data ceiling, whatever the number of assignments    *)
(* of the device.                                                          *)
C23_ScriptWithinCeiling ==
    (response # Null /\ response[1].status = 200) =>
        \A n \in documentsOf("VirtualMachine") :
            byteLength(response[1].documents[n].userData) <= UserDataLimit

(* The names of the network-attachment documents of a manifest text. *)
attachmentNames(documents) ==
    {documents[m].name : m \in {k \in DOMAIN documents :
                                   documents[k].kind = "NetworkAttachmentDefinition"}}

(* C24: a machine document of a device with k assignments declares 1 + k    *)
(* interfaces and 1 + k networks: the default pod-network one first, then   *)
(* one per assignment in order, bound to the attachment named after the     *)
(* assignment's segment; every attachment so referenced is defined in the   *)
(* full bundle and in the claims-only text of the same registry.           *)
C24_InterfacesPerAssignment ==
    (response # Null /\ response[1].status = 200 /\ manifest # Null) =>
        \A n \in documentsOf("VirtualMachine") :
            LET doc == response[1].documents[n]
                assignments == manifest[1].ipAssignments[doc.deviceId]
                k == Len(assignments)
                now == instantOf(response[1])
                segments == manifest[1].networkSegments
            IN  /\ Len(doc.interfaces) = 1 + k
                /\ Len(doc.networks) = 1 + k
                /\ doc.interfaces[1] = [name |-> "default", binding |-> "masquerade"]
                /\ doc.networks[1] = [name |-> "default", source |-> "pod", networkName |-> ""]
                /\ \A i \in 1..k :
                      /\ doc.interfaces[i + 1]
                         = [name |-> assignments[i].network, binding |-> "bridge"]
                      /\ doc.networks[i + 1]
                         = [name |-> assignments[i].network, source |-> "multus",
                            networkName |-> assignments[i].network]
                      /\ \E j \in 1..Len(segments) :
                            /\ segments[j].name = doc.networks[i + 1].networkName
                            /\ segments[j].subnet = assignments[i].subnet
                            /\ doc.deviceId \in {segments[j].devices[1], segments[j].devices[2]}
                      /\ doc.networks[i + 1].networkName
                         \in attachmentNames(exportKubevirt(devices, connections, now).documents)
                      /\ doc.networks[i + 1].networkName
                         \in attachmentNames(exportKubevirtPVCs(devices, connections, now).documents)

(* A machines-only export in which a machine has three interfaces on two    *)
(* different attachments.                                                  *)
C24_Witness ==
    /\ response # Null
    /\ response[1].mode = "kubevirt-vms"
    /\ response[1].status = 200
    /\ \E n \in documentsOf("VirtualMachine") :
          /\ Len(response[1].documents[n].networks) >= 3
          /\ response[1].documents[n].networks[2].networkName
             # response[1].documents[n].networks[3].networkName

(***************************************************************************)
(* Properties of the addresses                                             *)
(***************************************************************************)
(* The stored connections with every router address cleared whose endpoint *)
(* is not a router.                                                        *)
withoutStrayRouterIPs(devs, conns) ==
    [i \in 1..Len(conns) |->
        LET isRouter(id) == findDevice(devs, id) # 0
                            /\ devs[findDevice(devs, id)].type = "router"
        IN  [conns[i] EXCEPT
                !.fromRouterIP = IF isRouter(conns[i].from) THEN @ ELSE Null,
                !.toRouterIP = IF isRouter(conns[i].to) THEN @ ELSE Null]]

(* The subnets, addresses and gateways of a compiler output. *)
addressesOf(out) ==
    [subnets |-> [j \in 1..Len(out.networkSegments) |-> out.networkSegments[j].subnet],
     assignments |->
        [id \in DOMAIN out.ipAssignments |->
            [k \in 1..Len(out.ipAssignments[id]) |->
                [ip |-> out.ipAssignments[id][k].ip,
                 gateway |-> out.ipAssignments[id][k].gateway]]]]

(* C25: a fromRouterIP or toRouterIP stored on a connection whose           *)
(* corresponding endpoint is not a router has no effect on the compiler     *)
(* output: subnets, addresses and gateways are as if the field were null.   *)
C25_StrayRouterIPIgnored ==
    manifest # Null =>
        addressesOf(manifest[1])
        = addressesOf(generateConnectionBasedIPAssignments(
                          devices, withoutStrayRouterIPs(devices, connections)))

(* C26: every address the registry stores (a device's static ip, the       *)
(* values of a router's interfaceIPs, a connection's fromRouterIP and       *)
(* toRouterIP) is a dotted quad of four octets in 0..255.                  *)
C26_StoredAddressesValid ==
    /\ \A i \in 1..Len(devices) :
          /\ devices[i].ip # Null => validQuad(devices[i].ip)
          /\ devices[i].interfaceIPs # Null =>
                \A key \in DOMAIN devices[i].interfaceIPs[1] :
                    devices[i].interfaceIPs[1][key] # Null =>
                        validQuad(devices[i].interfaceIPs[1][key])
    /\ \A i \in 1..Len(connections) :
          /\ connections[i].fromRouterIP # Null => validQuad(connections[i].fromRouterIP)
          /\ connections[i].toRouterIP # Null => validQuad(connections[i].toRouterIP)

(* C27: in every compiler output the two member devices of a segment have   *)
(* different addresses on that segment.                                    *)
C27_MembersDistinctIPs ==
    manifest # Null =>
        \A j \in 1..Len(manifest[1].networkSegments) :
            LET segment == manifest[1].networkSegments[j]
            IN  segment.devices[1] # segment.devices[2] =>
                    \A a \in assignmentsOn(manifest, segment.devices[1], segment.name),
                       b \in assignmentsOn(manifest, segment.devices[2], segment.name) : a.ip # b.ip

(* C28: in every compiler output the address and the gateway of each        *)
(* assignment lie inside the /24 subnet of the assignment's segment: their  *)
(* first three octets are the segment's networkBase.                       *)
C28_AddressesInsideSubnet ==
    manifest # Null =>
        \A j \in 1..Len(manifest[1].networkSegments) :
            LET segment == manifest[1].networkSegments[j]
            IN  \A m \in 1..2 :
                    \A a \in assignmentsOn(manifest, segment.devices[m], segment.name) :
                        /\ Len(a.ip) = 4
                        /\ SubSeq(a.ip, 1, 3) = segment.networkBase
                        /\ Len(a.gateway) = 4
                        /\ SubSeq(a.gateway, 1, 3) = segment.networkBase

(* C29: with routers created without an interfaceIPs map, every key         *)
(* to_<peer> of a router's interfaceIPs belongs to a stored connection      *)
(* between that router and <peer>: an entry does not outlive the            *)
(* connection it was written for.                                          *)
C29_InterfaceEntriesLive ==
    \A i \in 1..Len(devices) :
        devices[i].interfaceIPs # Null =>
            \A key \in DOMAIN devices[i].interfaceIPs[1] :
                \E c \in 1..Len(connections) :
                    \/ /\ connections[c].from = devices[i].id
                       /\ key = "to_" \o connections[c].to
                    \/ /\ connections[c].to = devices[i].id
                       /\ key = "to_" \o connections[c].from

(* C30: the bridge of every network-attachment document is br followed by   *)
(* the third octet of the segment's subnet, and two different segments      *)
(* never share a bridge.                                                   *)
C30_BridgePerSegment ==
    (response # Null /\ response[1].status = 200) =>
        LET nads == ofKind(response[1].documents, "NetworkAttachmentDefinition")
        IN  /\ \A k \in 1..Len(nads) :
                  /\ nads[k].bridge = "br" \o ToString(nads[k].subnet[1][3])
                  /\ Len(nads[k].bridge) \in 3..5
            /\ \A k, l \in 1..Len(nads) : k # l => nads[k].bridge # nads[l].bridge

====
